---- MODULE Spec2Model ----
(***************************************************************************)
(* Model of pal_trust.cpp: the trust-settings matcher (CheckTrustMatch),   *)
(* the per-domain enumerator (EnumerateTrust) and the four exported        *)
(* AppleCryptoNative_StoreEnumerate* entry points.  The trust-settings     *)
(* store (SecTrustSettingsCopyCertificates / CopyTrustSettings) and the    *)
(* allocator are the environment: every answer they can give is drawn      *)
(* nondeterministically at the step that makes the call.                   *)
(***************************************************************************)
EXTENDS Integers, Sequences, FiniteSets, TLC

\* ------------------------------------------------------------- bounds
\* Longest certificate list the store returns for one domain.
MaxList == 2
\* Longest settings array handed to CheckTrustMatch when it is run alone.
MaxRecords == 3
\* Longest settings array the store returns inside an enumeration.
MaxStoreRecords == 1

\* ---------------------------------------------------------- constants
noErr == 0
errSecNoTrustSettings == -25263
errSecAllocate == -108
\* A store failure that is not the no-settings sentinel.
errSecInvalidTrustSettings == -25262

kSecTrustSettingsResultTrustRoot == 1
kSecTrustSettingsResultTrustAsRoot == 2
kSecTrustSettingsResultDeny == 3

\* nullptr, and the value a caller may have left in *pCertsOut before the call.
NULL == 0
STALE == -1

\* Every OSStatus the store can answer with.
StoreStatuses ==
    {noErr, errSecNoTrustSettings, errSecInvalidTrustSettings, errSecAllocate}

\* The trust results a settings dictionary may assert / a caller may ask for.
TrustResults ==
    {kSecTrustSettingsResultTrustRoot, kSecTrustSettingsResultTrustAsRoot,
     kSecTrustSettingsResultDeny}

\* Objects in a certificate list: three certificates and one object of another type.
Certs == {"A", "B", "C"}
Objects == Certs \cup {"notACert"}

\* CFGetTypeID(obj) == SecCertificateGetTypeID()
IsCertificate(obj) == obj \in Certs

\* ------------------------------------------------- settings records
\* One element of a settings array.  typeId: the element is a dictionary or
\* something else; count: CFDictionaryGetCount; valType: what
\* CFDictionaryGetValue(dict, kSecTrustSettingsResult) yields (nothing, a
\* CFNumber, or an object of another type); fits: whether CFNumberGetValue
\* converts the number to SInt32 without loss; num: the value it stores.
Rec(t, c, vt, f, n) ==
    [typeId |-> t, count |-> c, valType |-> vt, fits |-> f, num |-> n]

NonDictionary == Rec("other", 0, "none", FALSE, 0)

Records ==
    {NonDictionary, Rec("dictionary", 0, "none", FALSE, 0)}
    \cup {Rec("dictionary", c, vt, FALSE, 0) : c \in {1, 2}, vt \in {"none", "other"}}
    \cup {Rec("dictionary", c, "number", f, n) :
            c \in {1, 2}, f \in BOOLEAN, n \in TrustResults}

RECURSIVE SeqsUpTo(_, _)
SeqsUpTo(S, n) ==
    IF n = 0 THEN {<<>>}
    ELSE LET shorter == SeqsUpTo(S, n - 1)
         IN  shorter \cup {Append(s, x) : s \in {t \in shorter : Len(t) = n - 1}, x \in S}

\* The settings arrays the store answers with inside an enumeration.  The
\* enumeration reads nothing of an array but CheckTrustMatch's verdict on it, so
\* these are the records that can decide or be passed over for the two results
\* the exported functions ask for; every record is tried when CheckTrustMatch
\* is run on its own.
StoreRecords ==
    {NonDictionary}
    \cup {Rec("dictionary", c, "number", f, n) :
            c \in {1, 2}, f \in BOOLEAN,
            n \in {kSecTrustSettingsResultTrustRoot, kSecTrustSettingsResultDeny}}

\* The certificate lists the store answers with: each object listed once.
CertLists ==
    {s \in SeqsUpTo(Objects, MaxList) :
        \A a, b \in 1..Len(s) : s[a] = s[b] => a = b}

\* ------------------------------------------------- CheckTrustMatch
\* CFDictionaryGetCount(dict) > 1: the dictionary carries constraints.
DictHasConstraintsOff(count) == count > 2
DictHasConstraints(count) == count > 1

\* CFNumberGetValue(cfNum, kCFNumberSInt32Type, &trustValue)
CFNumberGetValue(obj) == obj.fits

\* An empty settings array counts as "Trust Root".
EmptySettingsMatchAlways(result) == TRUE
EmptySettingsMatch(result) == result = kSecTrustSettingsResultTrustRoot

\* The scan without its break: every deciding record overwrites isMatch.
RECURSIVE ScanNoBreak(_, _, _, _)
ScanNoBreak(settings, i, result, isMatch) ==
    IF i >= Len(settings) THEN isMatch
    ELSE LET obj == settings[i + 1]
         IN  IF /\ obj.typeId = "dictionary"
                /\ ~DictHasConstraints(obj.count)
                /\ obj.valType = "number"
                /\ CFNumberGetValue(obj)
             THEN ScanNoBreak(settings, i + 1, result, obj.num = result)
             ELSE ScanNoBreak(settings, i + 1, result, isMatch)
ScanSettingsNoBreak(settings, i, result) == ScanNoBreak(settings, i, result, FALSE)

\* The for loop over the settings array, from index i (0-based as in the code).
RECURSIVE ScanSettings(_, _, _)
ScanSettings(settings, i, result) ==
    IF i >= Len(settings) THEN FALSE
    ELSE LET obj == settings[i + 1]
         IN  IF obj.typeId # "dictionary" THEN ScanSettings(settings, i + 1, result)
             ELSE IF DictHasConstraints(obj.count) THEN ScanSettings(settings, i + 1, result)
             ELSE IF obj.valType = "number" /\ CFNumberGetValue(obj)
                  THEN obj.num = result
             ELSE ScanSettings(settings, i + 1, result)

\* if (settings != nullptr) CFRelease(settings);
SettingsReleased(copyStatus, present) == present

\* CheckTrustMatch.  copyStatus, present, settings are what
\* SecTrustSettingsCopyTrustSettings answered: its OSStatus, whether it stored a
\* non-null array, and the array's elements.  The result is the returned bool,
\* the value left in *pOSStatus, and whether the array was released.
CheckTrustMatch(copyStatus, present, settings, result) ==
    [isMatch  |-> IF copyStatus = noErr /\ present
                  THEN IF Len(settings) = 0
                       THEN EmptySettingsMatch(result)
                       ELSE ScanSettings(settings, 0, result)
                  ELSE FALSE,
     status   |-> copyStatus,
     released |-> SettingsReleased(copyStatus, present)]

\* ---------------------------------------------------------------- state
VARIABLES
    pc,              \* where the call is: idle, enter, list, loop, finish, resolve, done
                     \* (eval, evaluated: CheckTrustMatch run on its own)
    op,              \* the exported function called
    pCertsOut,       \* TRUE iff the pCertsOut pointer is non-null
    pOSStatusOut,    \* TRUE iff the pOSStatusOut pointer is non-null
    certsOut,        \* *pCertsOut
    osStatusOut,     \* *pOSStatusOut
    wrote,           \* which of the two outputs the callee has stored to
    ret,             \* value returned by the last EnumerateTrust / by the function
    domIdx,          \* position in the function's domain chain
    outArray,        \* EnumerateTrust's local outArray
    certsWithTrusts, \* EnumerateTrust's local certsWithTrusts: handle and elements
    i,               \* EnumerateTrust's loop index
    heap,            \* every CF object created so far: kind, releases, elements
    fault,           \* TRUE once a handle that is not live was read, written or released
    entered,         \* domains EnumerateTrust was called for, in order
    storeLog,        \* per list call: domain, its status, status of the last settings lookup
    matched,         \* per chain position: certificates CheckTrustMatch accepted, in order
    emptySeen,       \* <<position, cert>> whose lookup gave noErr and an empty array
    entry,           \* *pCertsRef and its elements when EnumerateTrust was entered
    evIn,            \* CheckTrustMatch run on its own: the store's answer and the result asked
    evOut            \* ... and what it returned

vars == <<pc, op, pCertsOut, pOSStatusOut, certsOut, osStatusOut, wrote, ret, domIdx,
          outArray, certsWithTrusts, i, heap, fault, entered, storeLog, matched,
          emptySeen, entry, evIn, evOut>>

Ops == {"UserRoot", "MachineRoot", "UserDisallowed", "MachineDisallowed"}
MachineOps == {"MachineRoot", "MachineDisallowed"}
RootOps == {"UserRoot", "MachineRoot"}

\* The domains each exported function passes to EnumerateTrust, in order.
Chain(o) ==
    IF o \in MachineOps THEN <<"Admin", "System">> ELSE <<"User">>

\* The SecTrustSettingsResult each exported function passes to EnumerateTrust.
Desired(o) ==
    IF o \in RootOps THEN kSecTrustSettingsResultTrustRoot
    ELSE kSecTrustSettingsResultDeny

\* ----------------------------------------------------------------- heap
NoList == [ref |-> NULL, objs |-> <<>>]
NoEntry == [ref |-> NULL, items |-> <<>>]
NoEval == [status |-> noErr, present |-> FALSE, settings |-> <<>>, result |-> NULL]
NoResult == [isMatch |-> FALSE, status |-> noErr, released |-> FALSE]

\* CFArrayCreateMutable / an array handed over by the store.
Alloc(hp, kind) == Append(hp, [kind |-> kind, releases |-> 0, items |-> <<>>])

IsHandle(hp, h) == h \in 1..Len(hp)
Live(hp, h) == IsHandle(hp, h) /\ hp[h].releases = 0

\* CFRelease
CFReleaseForgotten(hp, h) == hp
CFRelease(hp, h) ==
    IF IsHandle(hp, h) THEN [hp EXCEPT ![h].releases = @ + 1] ELSE hp

\* CFArrayGetCount / CFArrayGetValueAtIndex on an accumulator
Items(hp, h) == IF IsHandle(hp, h) THEN hp[h].items ELSE <<>>

\* CFArrayAppendValue(outArray, cert)
AppendValueInFront(items, cert) == <<cert>> \o items
AppendValue(items, cert) == Append(items, cert)

CFArrayAppendValue(hp, h, cert) ==
    IF IsHandle(hp, h) THEN [hp EXCEPT ![h].items = AppendValue(@, cert)] ELSE hp

\* ------------------------------------------------------- EnumerateTrust
\* if (pCertsRef == nullptr || pOSStatus == nullptr) return -1;
InvalidArgsBothOnly(certsPtr, statusPtr) == ~certsPtr /\ ~statusPtr
InvalidArgs(certsPtr, statusPtr) == ~certsPtr \/ ~statusPtr

\* else if (*pOSStatus == errSecNoTrustSettings) *pOSStatus = noErr;
ListStatusUnchanged(status) == status
NormalizeListStatus(status) ==
    IF status = errSecNoTrustSettings THEN noErr ELSE status

\* if (ret == 0 || CFArrayGetCount(outArray) == 0): release and reset *pCertsRef
DiscardOnlyWhenEmpty(r, count) == count = 0
DiscardOnlyOnFailure(r, count) == r = 0
DiscardAccumulator(r, count) == r = 0 \/ count = 0

\* if (ret == 1): the exported Machine functions go on to the next domain
ContinueAlways(r) == TRUE
ContinueChain(r) == r = 1

\* if (*pCertsRef != nullptr) outArray = *pCertsRef; else create one
ReuseAccumulator(ref) == ref # NULL

\* Before one of the exported functions is called: the caller's two output
\* locations hold whatever an earlier use left there.
InitCall ==
    /\ pc = "idle"
    /\ op = "UserRoot"
    /\ pCertsOut = TRUE
    /\ pOSStatusOut = TRUE
    /\ certsOut \in {NULL, STALE}
    /\ osStatusOut \in {noErr, errSecInvalidTrustSettings}
    /\ wrote = [certs |-> FALSE, status |-> FALSE]
    /\ ret = 0
    /\ domIdx = 1
    /\ outArray = NULL
    /\ certsWithTrusts = NoList
    /\ i = 0
    /\ heap = <<>>
    /\ fault = FALSE
    /\ entered = <<>>
    /\ storeLog = <<>>
    /\ matched = <<>>
    /\ emptySeen = {}
    /\ entry = NoEntry
    /\ evIn = NoEval
    /\ evOut = NoResult

\* CheckTrustMatch about to run on one answer of the store's settings lookup.
InitEval ==
    /\ pc = "eval"
    /\ evIn \in {e \in [status : StoreStatuses, present : BOOLEAN,
                        settings : SeqsUpTo(Records, MaxRecords),
                        result : TrustResults] :
                    (e.status # noErr \/ ~e.present) => e.settings = <<>>}
    /\ evOut = NoResult
    /\ op = "UserRoot"
    /\ pCertsOut = TRUE
    /\ pOSStatusOut = TRUE
    /\ certsOut = NULL
    /\ osStatusOut = noErr
    /\ wrote = [certs |-> FALSE, status |-> FALSE]
    /\ ret = 0
    /\ domIdx = 1
    /\ outArray = NULL
    /\ certsWithTrusts = NoList
    /\ i = 0
    /\ heap = <<>>
    /\ fault = FALSE
    /\ entered = <<>>
    /\ storeLog = <<>>
    /\ matched = <<>>
    /\ emptySeen = {}
    /\ entry = NoEntry

Init == InitCall \/ InitEval

\* CheckTrustMatch(cert, domain, result, pOSStatus) on the drawn answer.
Evaluate ==
    /\ pc = "eval"
    /\ evOut' = CheckTrustMatch(evIn.status, evIn.present, evIn.settings, evIn.result)
    /\ pc' = "evaluated"
    /\ UNCHANGED <<op, pCertsOut, pOSStatusOut, certsOut, osStatusOut, wrote, ret,
                   domIdx, outArray, certsWithTrusts, i, heap, fault, entered,
                   storeLog, matched, emptySeen, entry, evIn>>

\* An exported function is called: it resets *pCertsOut when the pointer is there,
\* then calls EnumerateTrust for the first domain of its chain.
Call ==
    /\ pc = "idle"
    /\ \E o \in Ops, cp \in BOOLEAN, sp \in BOOLEAN :
        /\ op' = o
        /\ pCertsOut' = cp
        /\ pOSStatusOut' = sp
        /\ certsOut' = IF cp THEN NULL ELSE certsOut
        /\ wrote' = [wrote EXCEPT !.certs = cp]
    /\ domIdx' = 1
    /\ pc' = "enter"
    /\ UNCHANGED <<osStatusOut, ret, outArray, certsWithTrusts, i, heap, fault,
                   entered, storeLog, matched, emptySeen, entry, evIn, evOut>>

\* EnumerateTrust up to the store's list call: the status reset, the argument
\* check, and the choice or creation of the accumulator (which may fail).
EnumerateTrustEnter ==
    /\ pc = "enter"
    /\ entered' = Append(entered, Chain(op)[domIdx])
    /\ matched' = Append(matched, <<>>)
    /\ entry' = [ref |-> certsOut, items |-> Items(heap, certsOut)]
    /\ IF InvalidArgs(pCertsOut, pOSStatusOut)
       THEN /\ osStatusOut' = IF pOSStatusOut THEN noErr ELSE osStatusOut
            /\ wrote' = [wrote EXCEPT !.status = @ \/ pOSStatusOut]
            /\ ret' = -1
            /\ pc' = "resolve"
            /\ UNCHANGED <<certsOut, outArray, heap>>
       ELSE /\ wrote' = [certs |-> TRUE, status |-> TRUE]
            /\ IF ReuseAccumulator(certsOut)
               THEN /\ outArray' = certsOut
                    /\ osStatusOut' = noErr
                    /\ pc' = "list"
                    /\ UNCHANGED <<certsOut, heap, ret>>
               ELSE \E created \in BOOLEAN :
                      IF created
                      THEN /\ heap' = Alloc(heap, "accumulator")
                           /\ outArray' = Len(heap) + 1
                           /\ certsOut' = Len(heap) + 1
                           /\ osStatusOut' = noErr
                           /\ pc' = "list"
                           /\ UNCHANGED ret
                      ELSE /\ outArray' = NULL
                           /\ certsOut' = NULL
                           /\ osStatusOut' = errSecAllocate
                           /\ ret' = 0
                           /\ pc' = "resolve"
                           /\ UNCHANGED heap
    /\ UNCHANGED <<op, pCertsOut, pOSStatusOut, domIdx, certsWithTrusts, i, fault,
                   storeLog, emptySeen, evIn, evOut>>

\* SecTrustSettingsCopyCertificates(domain, &certsWithTrusts) and the branch on
\* its status: noErr enters the loop, the no-settings sentinel becomes noErr.
CopyCertificates ==
    /\ pc = "list"
    /\ \E status \in StoreStatuses, present \in BOOLEAN,
          objs \in CertLists :
        /\ status = noErr => present
        /\ status # noErr => objs = <<>>
        /\ heap' = IF present THEN Alloc(heap, "certs") ELSE heap
        /\ certsWithTrusts' = [ref |-> IF present THEN Len(heap) + 1 ELSE NULL,
                               objs |-> objs]
        /\ osStatusOut' = NormalizeListStatus(status)
        /\ pc' = IF status = noErr THEN "loop" ELSE "finish"
        /\ storeLog' = Append(storeLog, [domain |-> Chain(op)[domIdx],
                                         listStatus |-> status,
                                         lookups |-> 0,
                                         lookupStatus |-> noErr])
    /\ i' = 0
    /\ UNCHANGED <<op, pCertsOut, pOSStatusOut, certsOut, wrote, ret, domIdx,
                   outArray, fault, entered, matched, emptySeen, entry, evIn, evOut>>

\* One iteration of EnumerateTrust's loop: skip an object that is no
\* certificate; otherwise CheckTrustMatch (the store's settings lookup, the
\* scan, the release), break on an error, append on a match.
EnumerateTrustLoop ==
    /\ pc = "loop"
    /\ i < Len(certsWithTrusts.objs)
    /\ LET obj == certsWithTrusts.objs[i + 1]
           k == Len(storeLog)
       IN  IF ~IsCertificate(obj)
           THEN /\ i' = i + 1
                /\ fault' = (fault \/ ~Live(heap, certsWithTrusts.ref))
                /\ UNCHANGED <<pc, osStatusOut, heap, storeLog, matched, emptySeen>>
           ELSE \E copyStatus \in StoreStatuses, present \in BOOLEAN,
                   settings \in SeqsUpTo(StoreRecords, MaxStoreRecords) :
                  /\ (copyStatus # noErr \/ ~present) => settings = <<>>
                  /\ LET r == CheckTrustMatch(copyStatus, present, settings, Desired(op))
                         hp1 == IF present THEN Alloc(heap, "settings") ELSE heap
                         hp2 == IF r.released THEN CFRelease(hp1, Len(hp1)) ELSE hp1
                         add == r.status = noErr /\ r.isMatch
                     IN  /\ osStatusOut' = r.status
                         /\ heap' = IF add THEN CFArrayAppendValue(hp2, outArray, obj)
                                    ELSE hp2
                         /\ fault' = (\/ fault
                                      \/ ~Live(heap, certsWithTrusts.ref)
                                      \/ (add /\ ~Live(heap, outArray)))
                         /\ pc' = IF r.status # noErr THEN "finish" ELSE "loop"
                         /\ i' = IF r.status # noErr THEN i ELSE i + 1
                         /\ storeLog' = [storeLog EXCEPT ![k].lookupStatus = copyStatus,
                                                         ![k].lookups = 1]
                         /\ matched' = IF add
                                       THEN [matched EXCEPT ![domIdx] = Append(@, obj)]
                                       ELSE matched
                         /\ emptySeen' = IF copyStatus = noErr /\ present /\ settings = <<>>
                                         THEN emptySeen \cup {<<domIdx, obj>>}
                                         ELSE emptySeen
    /\ UNCHANGED <<op, pCertsOut, pOSStatusOut, certsOut, wrote, ret, domIdx, outArray,
                   certsWithTrusts, entered, entry, evIn, evOut>>

\* The end of EnumerateTrust: release the certificate list, compute ret, and
\* release the accumulator and reset *pCertsRef on failure or when it is empty.
EnumerateTrustFinish ==
    /\ IF pc = "loop" THEN i >= Len(certsWithTrusts.objs) ELSE pc = "finish"
    /\ LET hp1 == IF certsWithTrusts.ref # NULL
                  THEN CFRelease(heap, certsWithTrusts.ref) ELSE heap
           r == IF osStatusOut = noErr THEN 1 ELSE 0
           discard == DiscardAccumulator(r, Len(Items(hp1, outArray)))
       IN  /\ ret' = r
           /\ heap' = IF discard THEN CFRelease(hp1, outArray) ELSE hp1
           /\ certsOut' = IF discard THEN NULL ELSE certsOut
           /\ fault' = (\/ fault
                        \/ (certsWithTrusts.ref # NULL /\ ~Live(heap, certsWithTrusts.ref))
                        \/ ~Live(heap, outArray))
    /\ pc' = "resolve"
    /\ outArray' = NULL
    /\ certsWithTrusts' = NoList
    /\ i' = 0
    /\ UNCHANGED <<op, pCertsOut, pOSStatusOut, osStatusOut, wrote, domIdx, entered,
                   storeLog, matched, emptySeen, entry, evIn, evOut>>

\* if (ret == 1) ret = EnumerateTrust(kSecTrustSettingsDomainSystem, ...)
ChainNext ==
    /\ pc = "resolve"
    /\ domIdx < Len(Chain(op))
    /\ ContinueChain(ret)
    /\ domIdx' = domIdx + 1
    /\ pc' = "enter"
    /\ UNCHANGED <<op, pCertsOut, pOSStatusOut, certsOut, osStatusOut, wrote, ret,
                   outArray, certsWithTrusts, i, heap, fault, entered, storeLog,
                   matched, emptySeen, entry, evIn, evOut>>

\* return ret;
Return ==
    /\ pc = "resolve"
    /\ ~(domIdx < Len(Chain(op)) /\ ContinueChain(ret))
    /\ pc' = "done"
    /\ UNCHANGED <<op, pCertsOut, pOSStatusOut, certsOut, osStatusOut, wrote, ret,
                   domIdx, outArray, certsWithTrusts, i, heap, fault, entered,
                   storeLog, matched, emptySeen, entry, evIn, evOut>>

Next ==
    \/ Call
    \/ EnumerateTrustEnter
    \/ CopyCertificates
    \/ EnumerateTrustLoop
    \/ EnumerateTrustFinish
    \/ ChainNext
    \/ Return
    \/ Evaluate

Spec == Init /\ [][Next]_vars

\* =============================================================== claims
\* What the store reported for the k-th domain enumerated.
ListFailed(e) == e.listStatus \notin {noErr, errSecNoTrustSettings}
DomainFailed(e) == ListFailed(e) \/ e.lookupStatus # noErr
FailCode(e) == IF ListFailed(e) THEN e.listStatus ELSE e.lookupStatus

InSeq(x, s) == \E k \in 1..Len(s) : s[k] = x

\* Every accepted certificate of the scope, domain after domain.
AllMatched ==
    IF Len(matched) = 0 THEN <<>>
    ELSE IF Len(matched) = 1 THEN matched[1]
    ELSE matched[1] \o matched[2]

\* The collection the caller finds in *pCertsOut.
Returned == Items(heap, certsOut)

\* ---- C1
\* C1: in the Machine functions the System domain is entered only after the
\* Admin enumeration succeeded; and when Admin succeeded and the System
\* enumeration failed (list call or a settings lookup), the function returns 0,
\* *pOSStatusOut holds the failing code and *pCertsOut is null.
FailFastAcrossChain ==
    (op \in MachineOps /\ pc # "idle") =>
        /\ Len(entered) = 2 =>
              (Len(storeLog) >= 1 /\ ~DomainFailed(storeLog[1]))
        /\ (Len(storeLog) >= 1 /\ DomainFailed(storeLog[1])) =>
              (Len(storeLog) = 1 /\ entered = <<"Admin">>)
        /\ (pc = "done" /\ Len(storeLog) = 2 /\ DomainFailed(storeLog[2])) =>
              /\ ret = 0
              /\ osStatusOut = FailCode(storeLog[2])
              /\ certsOut = NULL

\* Admin matched a certificate, then a settings lookup in System failed.
FailFastWitness ==
    /\ pc = "done"
    /\ op = "MachineRoot"
    /\ Len(storeLog) = 2
    /\ matched[1] = <<"A">>
    /\ storeLog[2].lookups = 1
    /\ storeLog[2].lookupStatus = errSecInvalidTrustSettings
    /\ ret = 0

\* ---- C2
\* C2: when a Machine function returns 1, the returned collection is the Admin
\* matches in list order followed by the System matches in list order, with
\* nothing reordered, dropped or merged (no collection when there is no match).
DomainChainOrdering ==
    (pc = "done" /\ op \in MachineOps /\ ret = 1) =>
        /\ Len(matched) = 2
        /\ Returned = matched[1] \o matched[2]
        /\ certsOut # NULL => Live(heap, certsOut)

\* Admin gave A then B, System gave C then A again: A is returned twice.
DomainChainOrderingWitness ==
    /\ pc = "done"
    /\ op = "MachineRoot"
    /\ ret = 1
    /\ matched = << <<"A", "B">>, <<"C", "A">> >>
    /\ Returned = <<"A", "B", "C", "A">>

\* ---- C3
\* C3: when an exported function has returned, *pCertsOut is non-null exactly
\* when it returned 1 and some certificate matched in its scope, and a non-null
\* collection is live and not empty.
FinalNormalization ==
    (pc = "done" /\ pCertsOut) =>
        /\ (certsOut # NULL) <=> (ret = 1 /\ AllMatched # <<>>)
        /\ certsOut # NULL => (Live(heap, certsOut) /\ Returned # <<>>)

\* Success after looking certificates up in both domains, none matching.
FinalNormalizationWitness ==
    /\ pc = "done"
    /\ op = "MachineDisallowed"
    /\ ret = 1
    /\ Len(storeLog) = 2
    /\ storeLog[1].lookups = 1
    /\ storeLog[2].lookups = 1
    /\ certsOut = NULL
    /\ Len(heap) >= 6

\* ---- C4
\* A dictionary with one key whose result value is a CFNumber.
SingleKeyNumeric(rec) ==
    rec.typeId = "dictionary" /\ rec.count = 1 /\ rec.valType = "number"
\* ... whose number converts to a 32-bit signed integer without loss.
SingleKeyExact(rec) == SingleKeyNumeric(rec) /\ rec.fits

HasNumeric(s) == \E k \in 1..Len(s) : SingleKeyNumeric(s[k])
FirstNumeric(s) ==
    CHOOSE k \in 1..Len(s) :
        SingleKeyNumeric(s[k]) /\ \A j \in 1..(k - 1) : ~SingleKeyNumeric(s[j])

HasExact(s) == \E k \in 1..Len(s) : SingleKeyExact(s[k])
FirstExact(s) ==
    CHOOSE k \in 1..Len(s) :
        SingleKeyExact(s[k]) /\ \A j \in 1..(k - 1) : ~SingleKeyExact(s[j])

\* The lookup succeeded with a non-empty array.
EvaluatedNonEmpty ==
    /\ pc = "evaluated"
    /\ evIn.status = noErr
    /\ evIn.present
    /\ evIn.settings # <<>>

\* The record asserts this result.  A number that does not convert to SInt32
\* exactly is no SecTrustSettingsResult value, so it asserts none of them.
Asserts(rec, result) == rec.fits /\ rec.num = result

\* C4 as stated: the first single-key dictionary whose result value is numeric
\* decides isMatch (its value == the result asked for), whatever follows it.
FirstNumericRecordWins ==
    (EvaluatedNonEmpty /\ HasNumeric(evIn.settings)) =>
        evOut.isMatch = Asserts(evIn.settings[FirstNumeric(evIn.settings)], evIn.result)

\* C4 amended: the first single-key dictionary whose result value is a number
\* that converts to SInt32 without loss decides isMatch; later records cannot
\* change it.
FirstApplicableRecordWins ==
    (EvaluatedNonEmpty /\ HasExact(evIn.settings)) =>
        evOut.isMatch = (evIn.settings[FirstExact(evIn.settings)].num = evIn.result)

\* Record 0 asserts Deny, record 1 asserts TrustRoot, TrustRoot is asked: no match.
FirstApplicableWitness ==
    /\ pc = "evaluated"
    /\ evIn.status = noErr
    /\ evIn.settings =
         << Rec("dictionary", 1, "number", TRUE, kSecTrustSettingsResultDeny),
            Rec("dictionary", 1, "number", TRUE, kSecTrustSettingsResultTrustRoot) >>
    /\ evIn.result = kSecTrustSettingsResultTrustRoot
    /\ evOut.isMatch = FALSE

\* ---- C5
MultiKey(rec) == rec.typeId = "dictionary" /\ rec.count > 1
NotMultiKey(rec) == ~MultiKey(rec)

\* The verdict the first deciding record gives, FALSE when none decides.
FirstDecision(s, result) == HasExact(s) /\ s[FirstExact(s)].num = result

\* C5: a dictionary with more than one key never decides: the verdict is the
\* one the array gives with those dictionaries taken out, the status stays
\* noErr, and an array of only such dictionaries gives no match for any result.
MultiKeyNeverDecides ==
    EvaluatedNonEmpty =>
        /\ evOut.status = noErr
        /\ evOut.isMatch = FirstDecision(SelectSeq(evIn.settings, NotMultiKey), evIn.result)
        /\ (\A k \in 1..Len(evIn.settings) : MultiKey(evIn.settings[k])) => ~evOut.isMatch

\* Two two-key dictionaries asserting TrustRoot, TrustRoot asked: no match.
MultiKeyWitness ==
    /\ pc = "evaluated"
    /\ evIn.status = noErr
    /\ evIn.settings =
         << Rec("dictionary", 2, "number", TRUE, kSecTrustSettingsResultTrustRoot),
            Rec("dictionary", 2, "number", TRUE, kSecTrustSettingsResultTrustRoot) >>
    /\ evIn.result = kSecTrustSettingsResultTrustRoot
    /\ evOut.isMatch = FALSE
    /\ evOut.status = noErr

\* ---- C6
\* C6: a successful lookup that gives an empty array is a match exactly when
\* TrustRoot is asked, with status noErr; so inside an enumeration such a
\* certificate is accepted by the Root functions and not by the Disallowed
\* ones for that domain, and a Root function that returns 1 returns it.
EmptySettingsAreTrustRoot ==
    /\ (pc = "evaluated" /\ evIn.status = noErr /\ evIn.present /\ evIn.settings = <<>>) =>
          /\ evOut.status = noErr
          /\ evOut.isMatch = (evIn.result = kSecTrustSettingsResultTrustRoot)
    /\ \A e \in emptySeen :
          /\ InSeq(e[2], matched[e[1]]) <=> (op \in RootOps)
          /\ (pc = "done" /\ ret = 1 /\ op \in RootOps) => InSeq(e[2], Returned)

\* B had an empty settings array in the System domain and is returned.
EmptySettingsWitness ==
    /\ pc = "done"
    /\ op = "MachineRoot"
    /\ ret = 1
    /\ <<2, "B">> \in emptySeen
    /\ Returned = <<"B">>

\* ---- C7
\* The accumulator is as it was when EnumerateTrust was entered (none then, none now).
AccumulatorAsOnEntry ==
    IF entry.ref = NULL THEN certsOut = NULL
    ELSE /\ certsOut = entry.ref
         /\ Live(heap, certsOut)
         /\ Returned = entry.items

\* C7: when the list call of the k-th domain answers errSecNoTrustSettings, no
\* settings are looked up and nothing is accepted for it, EnumerateTrust returns
\* 1 with *pOSStatus = noErr and the accumulator as on entry, and a Machine
\* function goes on to enter the next domain.
NoSettingsIsSuccess ==
    \A k \in 1..Len(storeLog) :
        storeLog[k].listStatus = errSecNoTrustSettings =>
            /\ storeLog[k].lookups = 0
            /\ matched[k] = <<>>
            /\ (domIdx = k /\ pc \in {"finish", "resolve"}) => osStatusOut = noErr
            /\ (domIdx = k /\ pc = "resolve") => (ret = 1 /\ AccumulatorAsOnEntry)
            /\ (pc = "done" /\ k < Len(Chain(op))) => Len(entered) = k + 1
            /\ (pc = "done" /\ k = Len(entered)) =>
                  (ret = 1 /\ osStatusOut = noErr /\ AccumulatorAsOnEntry)

\* Admin matched A and B, System has no settings: A, B are returned.
NoSettingsWitness ==
    /\ pc = "done"
    /\ op = "MachineDisallowed"
    /\ Len(storeLog) = 2
    /\ storeLog[2].listStatus = errSecNoTrustSettings
    /\ Returned = <<"A", "B">>
    /\ ret = 1

\* ---- C8
ArgumentMissing == ~pCertsOut \/ ~pOSStatusOut

\* C8 as stated: with an output pointer missing the function returns -1, makes
\* no store call, and stores nothing through the pointer that was supplied.
InvalidArgumentsWriteNothing ==
    (pc = "done" /\ ArgumentMissing) =>
        /\ ret = -1
        /\ storeLog = <<>>
        /\ heap = <<>>
        /\ wrote = [certs |-> FALSE, status |-> FALSE]

\* C8 amended: with an output pointer missing the function returns -1, makes no
\* store call and creates nothing; its only stores are the resets of the
\* output that was supplied (*pCertsOut = null, *pOSStatusOut = noErr).
InvalidArgumentsShortCircuit ==
    (pc = "done" /\ ArgumentMissing) =>
        /\ ret = -1
        /\ storeLog = <<>>
        /\ heap = <<>>
        /\ Len(entered) = 1
        /\ wrote = [certs |-> pCertsOut, status |-> pOSStatusOut]
        /\ pCertsOut => certsOut = NULL
        /\ pOSStatusOut => osStatusOut = noErr

\* Only the status pointer supplied, holding an old error: it now holds noErr.
InvalidArgumentsWitness ==
    /\ pc = "done"
    /\ op = "MachineRoot"
    /\ ~pCertsOut
    /\ pOSStatusOut
    /\ ret = -1
    /\ osStatusOut = noErr
    /\ wrote.status

\* ---- C9
\* EnumerateTrust has just returned for the second domain, which it entered with
\* matches from the first, and the list call failed (not the sentinel).
SecondDomainListFailed ==
    /\ domIdx = 2
    /\ Len(storeLog) = 2
    /\ ListFailed(storeLog[2])
    /\ entry.ref # NULL

\* C9 as stated: EnumerateTrust surfaces the error and leaves the accumulator
\* as it was on entry (same handle, still live, same elements).
EnumeratorKeepsAccumulator ==
    (pc = "resolve" /\ SecondDomainListFailed) =>
        /\ osStatusOut = storeLog[2].listStatus
        /\ AccumulatorAsOnEntry

\* C9 amended: EnumerateTrust surfaces the error and appends nothing, and it is
\* EnumerateTrust itself that releases the accumulator (once) and resets
\* *pCertsRef; the exported function releases nothing after it.
EnumeratorDiscardsAccumulator ==
    (pc \in {"resolve", "done"} /\ SecondDomainListFailed) =>
        /\ ret = 0
        /\ osStatusOut = storeLog[2].listStatus
        /\ certsOut = NULL
        /\ heap[entry.ref].items = entry.items
        /\ heap[entry.ref].releases = 1

\* Entered with A, B from Admin; the System list call failed.
EnumeratorDiscardsWitness ==
    /\ pc = "resolve"
    /\ SecondDomainListFailed
    /\ entry.items = <<"A", "B">>
    /\ storeLog[2].listStatus = errSecInvalidTrustSettings

\* ---- C10
\* C10: no handle is read, written or released when it is not live, none is
\* released twice, and when the function has returned every certificate list
\* and settings array was released once and every accumulator once, except
\* the one returned with success, which is still live.
ResourceDiscipline ==
    /\ ~fault
    /\ \A h \in 1..Len(heap) : heap[h].releases <= 1
    /\ pc = "done" =>
          \A h \in 1..Len(heap) :
              heap[h].releases =
                  IF pCertsOut /\ h = certsOut /\ ret = 1 /\ heap[h].kind = "accumulator"
                  THEN 0 ELSE 1
    /\ pc = "evaluated" => (evOut.released <=> evIn.present)

\* The list call of the second domain failed with its own array handed over,
\* after both an accepted and a rejected lookup in the first.
ResourceDisciplineWitness ==
    /\ pc = "done"
    /\ op = "MachineDisallowed"
    /\ Len(storeLog) = 2
    /\ ListFailed(storeLog[2])
    /\ Len(matched[1]) = 1
    /\ Len(heap) = 5
    /\ \A h \in 1..Len(heap) : heap[h].releases = 1
====
